---------------------------- MODULE Spec2Model ----------------------------
(***************************************************************************)
(* A model of the marshal.ts pipeline (src/index.ts): marshal units, the   *)
(* two-phase dispatcher of createMarshaller, combineMarshallers /          *)
(* extendMarshaller, addMarshallerFinalizer and the built-in units.        *)
(*                                                                         *)
(* JavaScript values are records [kind, ref, val]:                         *)
(*   kind  the runtime type ("undef", "null", "bool", "num", "nan", "str", *)
(*         "bigint", "date", "array", "set", "object", "foo", "json",      *)
(*         "bytes");                                                       *)
(*   ref   the identity of a reference type: 1 for an object the caller    *)
(*         owns, 0 for an object allocated during a call (and for every    *)
(*         primitive);                                                     *)
(*   val   the payload: an integer, a sequence of one-character strings,   *)
(*         a sequence of values, or a sequence of <<key, value>> entries.  *)
(* Strings are sequences of characters so that formatting and parsing are  *)
(* computed, not assumed.  Time values are limited to January 1970: TLC's  *)
(* integers are 32 bits wide.                                              *)
(***************************************************************************)
EXTENDS Integers, Sequences, FiniteSets, TLC

(***************************************************************************)
(* Bounds of the model.                                                    *)
(***************************************************************************)
\* the number of marshallers built on top of defaultMarshaller
MaxMarshallers == 3
\* the number of nested dispatcher frames (marshal / unmarshal of a marshaller
\* made by createMarshaller) before the stack overflows
MaxStack == 5
\* the number of units callers push onto arrays after handing them over
MaxPushes == 1

(***************************************************************************)
(* Values.                                                                 *)
(***************************************************************************)
Prim(k, v) == [kind |-> k, ref |-> 0, val |-> v]
Undefined == Prim("undef", 0)
Null == Prim("null", 0)
Bool(b) == Prim("bool", IF b THEN 1 ELSE 0)
Num(n) == Prim("num", n)
NaN == Prim("nan", 0)
Str(s) == Prim("str", s)
BigInt(n) == Prim("bigint", n)
\* an object of a reference type: r is its identity
Obj(k, r, v) == [kind |-> k, ref |-> r, val |-> v]
\* a Date holds a time value <<ms>>, or <<>> when the time value is NaN
NewDate(t) == Obj("date", 0, t)
NewArray(elems) == Obj("array", 0, elems)
NewObject(entries) == Obj("object", 0, entries)

\* a thrown error, as the value a failed call carries
Err(name) == Prim("error", name)
TypeError == Err("TypeError")
RangeError == Err("RangeError")

PrimitiveKinds == {"undef", "null", "bool", "num", "nan", "str", "bigint"}
\* typeof value === 'object' && value !== null
IsObject(v) == v.kind \notin PrimitiveKinds

Digits == <<"0", "1", "2", "3", "4", "5", "6", "7", "8", "9">>
IsDigit(c) == \E i \in 1..10 : Digits[i] = c
DigitVal(c) == (CHOOSE i \in 1..10 : Digits[i] = c) - 1

RECURSIVE NatToString(_)
NatToString(n) ==
  IF n < 10 THEN <<Digits[n + 1]>>
  ELSE NatToString(n \div 10) \o <<Digits[(n % 10) + 1]>>

\* BigInt.prototype.toString(): decimal digits, "-" first for a negative value
BigintToString(n) == IF n < 0 THEN <<"-">> \o NatToString(-n) ELSE NatToString(n)

\* value.match(/^\d+$/)
MatchesDigits(s) == Len(s) >= 1 /\ \A i \in 1..Len(s) : IsDigit(s[i])

RECURSIVE ParseNat(_)
\* BigInt(value) for a string of decimal digits
ParseNat(s) ==
  IF Len(s) = 0 THEN 0
  ELSE 10 * ParseNat(SubSeq(s, 1, Len(s) - 1)) + DigitVal(s[Len(s)])


(***************************************************************************)
(* Dates: Date.prototype.toISOString and new Date(string).                 *)
(***************************************************************************)
MsPerDay == 24 * 60 * 60 * 1000

\* a number written with at least w digits
RECURSIVE Pad(_, _)
Pad(n, w) ==
  LET s == NatToString(n) IN IF Len(s) >= w THEN s ELSE <<"0">> \o Pad(n, w - 1)

\* the proleptic Gregorian date <<year, month, day>> of a day number (0 is 1970-01-01)
CivilFromDays(days) ==
  LET z == days + 719468
      era == z \div 146097
      doe == z - era * 146097
      yoe == (doe - doe \div 1460 + doe \div 36524 - doe \div 146096) \div 365
      doy == doe - (365 * yoe + yoe \div 4 - yoe \div 100)
      mp == (5 * doy + 2) \div 153
      d == doy - (153 * mp + 2) \div 5 + 1
      m == IF mp < 10 THEN mp + 3 ELSE mp - 9
      y == yoe + era * 400 + (IF m <= 2 THEN 1 ELSE 0)
  IN <<y, m, d>>

DaysFromCivil(y0, m, d) ==
  LET y == IF m <= 2 THEN y0 - 1 ELSE y0
      era == y \div 400
      yoe == y - era * 400
      doy == (153 * (IF m > 2 THEN m - 3 ELSE m + 9) + 2) \div 5 + d - 1
      doe == yoe * 365 + yoe \div 4 - yoe \div 100 + doy
  IN era * 146097 + doe - 719468

\* Date.prototype.toISOString() of a valid time value (years 0000..9999)
ToISOString(ms) ==
  LET civ == CivilFromDays(ms \div MsPerDay)
      r == ms % MsPerDay
  IN Pad(civ[1], 4) \o <<"-">> \o Pad(civ[2], 2) \o <<"-">> \o Pad(civ[3], 2)
       \o <<"T">> \o Pad(r \div 3600000, 2) \o <<":">> \o Pad((r % 3600000) \div 60000, 2)
       \o <<":">> \o Pad((r % 60000) \div 1000, 2) \o <<".">> \o Pad(r % 1000, 3)
       \o <<"Z">>

AllDigits(s, from, to) == \A i \in from..to : IsDigit(s[i])

\* value.match(/^\d{4}-\d{2}-\d{2}[T\s]\d{2}:\d{2}/)
MatchesDatePrefix(s) ==
  /\ Len(s) >= 16
  /\ AllDigits(s, 1, 4) /\ s[5] = "-" /\ AllDigits(s, 6, 7) /\ s[8] = "-"
  /\ AllDigits(s, 9, 10) /\ s[11] \in {"T", " "}
  /\ AllDigits(s, 12, 13) /\ s[14] = ":" /\ AllDigits(s, 15, 16)

DaysInMonth(y, m) ==
  IF m = 2
    THEN (IF y % 4 = 0 /\ (y % 100 # 0 \/ y % 400 = 0) THEN 29 ELSE 28)
    ELSE (IF m \in {4, 6, 9, 11} THEN 30 ELSE 31)

\* new Date(value).valueOf() for a string that passed MatchesDatePrefix: <<ms>>, or
\* <<>> for NaN.  Only the format toISOString writes (YYYY-MM-DDTHH:mm:ss.sssZ) is
\* parsed; what an engine makes of any other string is implementation-defined
\* and no such string is among the inputs.
DateParse(s) ==
  LET num(a, b) == ParseNat(SubSeq(s, a, b))
      shaped == /\ Len(s) = 24 /\ s[11] = "T" /\ s[17] = ":" /\ AllDigits(s, 18, 19)
                /\ s[20] = "." /\ AllDigits(s, 21, 23) /\ s[24] = "Z"
      y == num(1, 4)   mo == num(6, 7)   d == num(9, 10)
      h == num(12, 13) mi == num(15, 16) sec == num(18, 19)
  IN IF ~shaped THEN <<>>
     ELSE IF mo \notin 1..12 \/ d \notin 1..DaysInMonth(y, mo) \/ h > 23 \/ mi > 59 \/ sec > 59
       THEN <<>>
     ELSE <<DaysFromCivil(y, mo, d) * MsPerDay + h * 3600000 + mi * 60000
              + sec * 1000 + num(21, 23)>>

(***************************************************************************)
(* Conversions and object helpers of the language.                         *)
(***************************************************************************)
RECURSIVE ToNumber(_)
\* the unary plus of `+(value as any)`: a number, or TypeError for a bigint
ToNumber(v) ==
  CASE v.kind \in {"num", "nan"} -> v
    [] v.kind = "undef" -> NaN
    [] v.kind = "null" -> Num(0)
    [] v.kind = "bool" -> Num(v.val)
    [] v.kind = "bigint" -> TypeError
    [] v.kind = "str" ->
         IF Len(v.val) = 0 THEN Num(0)
         ELSE IF MatchesDigits(v.val) THEN Num(ParseNat(v.val)) ELSE NaN
    [] v.kind = "date" -> IF v.val = <<>> THEN NaN ELSE Num(v.val[1])
    [] v.kind \in {"array", "bytes"} ->
         \* the elements joined by commas, read as a number
         IF Len(v.val) = 0 THEN Num(0)
         ELSE IF Len(v.val) > 1 THEN NaN
         ELSE LET e == v.val[1] IN
              CASE e.kind \in {"undef", "null"} -> Num(0)
                [] e.kind = "bigint" -> Num(e.val)
                [] e.kind \in {"num", "nan", "str", "array", "bytes"} -> ToNumber(e)
                [] OTHER -> NaN
    [] OTHER -> NaN

\* new Date(number)
DateFromNumber(n) == IF n.kind = "num" THEN NewDate(<<n.val>>) ELSE NewDate(<<>>)

\* Object.entries(value): the own enumerable string-keyed properties
Entries(v) ==
  CASE v.kind \in {"object", "foo"} -> v.val
    [] v.kind \in {"array", "bytes"} ->
         [i \in 1..Len(v.val) |-> <<NatToString(i - 1), v.val[i]>>]
    [] OTHER -> <<>>

\* Object.fromEntries(entries): a later entry of the same key replaces the value
RECURSIVE FromEntries(_)
FromEntries(es) ==
  IF Len(es) = 0 THEN <<>>
  ELSE LET init == FromEntries(SubSeq(es, 1, Len(es) - 1))
           e == es[Len(es)]
       IN IF \E i \in 1..Len(init) : init[i][1] = e[1]
            THEN [i \in 1..Len(init) |-> IF init[i][1] = e[1] THEN e ELSE init[i]]
            ELSE Append(init, e)

\* new Set(elems): a primitive already in the set is not added again; two
\* objects are the same element only when they are the same reference, and
\* no input holds one object twice
RECURSIVE Dedupe(_)
Dedupe(elems) ==
  IF Len(elems) = 0 THEN <<>>
  ELSE LET init == Dedupe(SubSeq(elems, 1, Len(elems) - 1))
           e == elems[Len(elems)]
       IN IF ~IsObject(e) /\ \E i \in 1..Len(init) : init[i] = e
            THEN init ELSE Append(init, e)

NewSet(elems) == Obj("set", 0, Dedupe(elems))

\* value.toJSON exists: on a Date, and on an instance of a class that defines it
HasToJSON(v) == v.kind \in {"json", "date"}

\* value.toJSON(): a Date gives its ISO string (null for an invalid date); the
\* class instance gives a new plain object of its private state
ToJSON(v) ==
  IF v.kind = "date"
    THEN (IF v.val = <<>> THEN Null ELSE Str(ToISOString(v.val[1])))
    ELSE NewObject(v.val)


(***************************************************************************)
(* Key-case functions of the 'Recasing Marshal' test.                      *)
(***************************************************************************)
Lower == <<"a", "b", "c", "d", "e", "f", "g", "h", "i", "j", "k", "l", "m",
           "n", "o", "p", "q", "r", "s", "t", "u", "v", "w", "x", "y", "z">>
Upper == <<"A", "B", "C", "D", "E", "F", "G", "H", "I", "J", "K", "L", "M",
           "N", "O", "P", "Q", "R", "S", "T", "U", "V", "W", "X", "Y", "Z">>
IsUpper(c) == \E i \in 1..26 : Upper[i] = c
IsLower(c) == \E i \in 1..26 : Lower[i] = c
ToLowerChar(c) == IF IsUpper(c) THEN Lower[CHOOSE i \in 1..26 : Upper[i] = c] ELSE c
ToUpperChar(c) == IF IsLower(c) THEN Upper[CHOOSE i \in 1..26 : Lower[i] = c] ELSE c

RECURSIVE SnakeCase(_)
\* key.replace(/([A-Z])/g, '_$1').toLowerCase()
SnakeCase(k) ==
  IF Len(k) = 0 THEN <<>>
  ELSE (IF IsUpper(k[1]) THEN <<"_", ToLowerChar(k[1])>> ELSE <<k[1]>>)
         \o SnakeCase(Tail(k))

RECURSIVE CamelCase(_)
\* key.replace(/_(.)/g, (_, c) => c.toUpperCase())
CamelCase(k) ==
  IF Len(k) = 0 THEN <<>>
  ELSE IF k[1] = "_" /\ Len(k) >= 2
    THEN <<ToUpperChar(k[2])>> \o CamelCase(SubSeq(k, 3, Len(k)))
    ELSE <<k[1]>> \o CamelCase(Tail(k))

\* the key functions a RecaseMarshalUnit is built with, by name: those of the
\* test, key => key, and the pair key => '_' + key,
\* key => key.startsWith('_') ? key.slice(1) : key
ApplyCase(fn, k) ==
  CASE fn = "snake" -> SnakeCase(k)
    [] fn = "camel" -> CamelCase(k)
    [] fn = "identity" -> k
    [] fn = "prefix" -> <<"_">> \o k
    [] fn = "unprefix" -> IF Len(k) > 0 /\ k[1] = "_" THEN Tail(k) ELSE k

\* key.endsWith('Time')
EndsWithTime(k) ==
  Len(k) >= 4 /\ SubSeq(k, Len(k) - 3, Len(k)) = <<"T", "i", "m", "e">>


(***************************************************************************)
(* Base64, as Buffer.from(bytes).toString('base64') and                    *)
(* Buffer.from(text, 'base64') compute it.                                 *)
(***************************************************************************)
Base64Chars == Upper \o Lower \o Digits \o <<"+", "/">>
Base64Val(c) == (CHOOSE i \in 1..64 : Base64Chars[i] = c) - 1
IsBase64Char(c) == \E i \in 1..64 : Base64Chars[i] = c

RECURSIVE Base64Encode(_)
\* bytes: a sequence of numbers 0..255
Base64Encode(b) ==
  LET ch(n) == Base64Chars[n + 1] IN
  CASE Len(b) = 0 -> <<>>
    [] Len(b) = 1 -> <<ch(b[1] \div 4), ch((b[1] % 4) * 16), "=", "=">>
    [] Len(b) = 2 -> <<ch(b[1] \div 4), ch((b[1] % 4) * 16 + b[2] \div 16),
                       ch((b[2] % 16) * 4), "=">>
    [] OTHER -> <<ch(b[1] \div 4), ch((b[1] % 4) * 16 + b[2] \div 16),
                  ch((b[2] % 16) * 4 + b[3] \div 64), ch(b[3] % 64)>>
                  \o Base64Encode(SubSeq(b, 4, Len(b)))

RECURSIVE Base64Decode(_)
\* text: the characters up to the padding, decoded in groups of four; a last
\* group of two or three characters gives one or two bytes, of one none
Base64Decode(t) ==
  LET v(i) == Base64Val(t[i]) IN
  CASE Len(t) < 2 \/ ~IsBase64Char(t[1]) \/ ~IsBase64Char(t[2]) -> <<>>
    [] OTHER ->
      LET b1 == v(1) * 4 + v(2) \div 16 IN
      IF Len(t) < 3 \/ ~IsBase64Char(t[3]) THEN <<b1>>
      ELSE LET b2 == (v(2) % 16) * 16 + v(3) \div 4 IN
           IF Len(t) < 4 \/ ~IsBase64Char(t[4]) THEN <<b1, b2>>
           ELSE <<b1, b2, (v(3) % 4) * 64 + v(4)>> \o Base64Decode(SubSeq(t, 5, Len(t)))

NewBytes(nums) == Obj("bytes", 0, [i \in 1..Len(nums) |-> Num(nums[i])])
BytesOf(v) == [i \in 1..Len(v.val) |-> v.val[i].val]


(***************************************************************************)
(* The program state.                                                      *)
(*   arrays       the unit arrays handed to createMarshaller; a marshaller *)
(*                keeps the array it was given, not a copy.                *)
(*   marshallers  the marshaller objects, in order of creation;            *)
(*                marshallers[1] is defaultMarshaller.                     *)
(*   call         the latest marshal/unmarshal call and what it returned,  *)
(*                until the caller is done with it.  The library is        *)
(*                synchronous: nothing else happens during a call.         *)
(*   extensions   history: the extendMarshaller calls made so far, each    *)
(*                with the marshaller it returned (m), the marshaller of   *)
(*                its units (new) and its base.                            *)
(*   pushes       history: the units callers pushed onto arrays they had   *)
(*                handed to createMarshaller, each with the array (a) and  *)
(*                the position it took in it (pos) and the number of       *)
(*                marshallers there were at the time (built).              *)
(***************************************************************************)
VARIABLES arrays, marshallers, call, extensions, pushes

vars == <<arrays, marshallers, call, extensions, pushes>>

(***************************************************************************)
(* Marshal units.  A callback is named by fn, with the values it closes    *)
(* over in par.                                                            *)
(***************************************************************************)
Cb(fn, par) == [fn |-> fn, par |-> par]

defineMarshalUnit(marshal, unmarshal, generic) ==
  [marshal |-> marshal, unmarshal |-> unmarshal, generic |-> generic]

DateMarshalUnit ==
  defineMarshalUnit(Cb("DateMarshal", <<>>), Cb("DateUnmarshal", <<>>), FALSE)
BigintMarshalUnit ==
  defineMarshalUnit(Cb("BigintMarshal", <<>>), Cb("BigintUnmarshal", <<>>), FALSE)
ArrayMarshalUnit ==
  defineMarshalUnit(Cb("ArrayMarshal", <<>>), Cb("ArrayUnmarshal", <<>>), FALSE)
RecaseMarshalUnit(marshalCase, unmarshalCase) ==
  defineMarshalUnit(Cb("Recase", <<marshalCase>>), Cb("Recase", <<unmarshalCase>>), TRUE)
ObjectMarshalUnit ==
  defineMarshalUnit(Cb("ObjectMarshal", <<>>), Cb("ObjectUnmarshal", <<>>), TRUE)
SetMarshalUnit ==
  defineMarshalUnit(Cb("SetMarshal", <<>>), Cb("SetUnmarshal", <<>>), FALSE)
IgnoreMarshalUnit(types) ==
  defineMarshalUnit(Cb("Ignore", types), Cb("Ignore", types), FALSE)
ToJsonMarshalUnit ==
  defineMarshalUnit(Cb("ToJsonMarshal", <<>>), Cb("Pass", <<>>), TRUE)

defaultMarshalUnits ==
  <<ArrayMarshalUnit, BigintMarshalUnit, DateMarshalUnit, SetMarshalUnit,
    ToJsonMarshalUnit, ObjectMarshalUnit>>

\* the units the tests define
KeyTestMarshalUnit ==
  defineMarshalUnit(Cb("KeyTestMarshal", <<>>), Cb("KeyTestUnmarshal", <<>>), FALSE)
\* (value) => typeof value === 'string' && value === from ? morph(to) : pass
ReplaceMarshalUnit(from, to) ==
  defineMarshalUnit(Cb("Replace", <<from, to>>), Cb("Replace", <<to, from>>), FALSE)
BytesMarshalUnit ==
  defineMarshalUnit(Cb("BytesMarshal", <<>>), Cb("Pass", <<>>), FALSE)
\* a unit that takes every value: () => morph(to)
CatchAllMarshalUnit(to, generic) ==
  defineMarshalUnit(Cb("Always", <<to>>), Cb("Always", <<to>>), generic)

(***************************************************************************)
(* What a call gives back.  A unit callback gives a MarshalResult:         *)
(* status "morph" with the value, "pass", or "throw" with the error.  A    *)
(* run of the dispatcher gives ok and the value returned (the error when   *)
(* not ok).  Both carry runs, the record of every dispatcher run made on   *)
(* the way, outermost first.                                               *)
(***************************************************************************)
morph(value, runs) == [status |-> "morph", value |-> value, runs |-> runs]
pass == [status |-> "pass", value |-> Undefined, runs |-> <<>>]
throw(error, runs) == [status |-> "throw", value |-> error, runs |-> runs]

\* the result of a callback that returns morph(f(r.value)) of a pass-back r
MorphOf(r, f(_)) == IF r.ok THEN morph(f(r.value), r.runs) ELSE throw(r.value, r.runs)

\* the property `name` of an object, <<>> when it has none
Property(v, name) ==
  LET es == Entries(v) IN
  IF \E i \in 1..Len(es) : es[i][1] = name
    THEN <<es[CHOOSE i \in 1..Len(es) : es[i][1] = name][2]>>
    ELSE <<>>

SetKey == <<"$", "s", "e", "t">>

(***************************************************************************)
(* The iterable a marshaller holds as self.units: an array (by reference), *)
(* or the generator of combineMarshallers over its marshallers' units.     *)
(***************************************************************************)
\* defaultMarshaller is the first marshaller there is
defaultMarshaller == 1

ArrayIter(a) == [kind |-> "array", src |-> <<a>>]
GeneratorIter(ms) == [kind |-> "generator", src |-> ms]

\* (variant: the marshallers visited last to first)
GeneratorOrderReversed(ms) == [i \in 1..Len(ms) |-> ms[Len(ms) + 1 - i]]
\* the order in which the generator of combineMarshallers visits its marshallers
GeneratorOrder(ms) == ms

\* (variant: createMarshaller keeps a copy of the array as it was handed
\* over, so that what is pushed onto the array later is not in it)
HeldCopy(a) ==
  SubSeq(arrays[a], 1,
         Len(arrays[a]) - Cardinality({i \in 1..Len(pushes) : pushes[i].a = a}))
\* the units self.units yields when it is the array a: createMarshaller keeps
\* the array it was given, so these are the units the array holds now
Held(a) == arrays[a]

RECURSIVE IterUnits(_)
\* for (const unit of units): the units in the order the iteration yields them
IterUnits(it) ==
  IF it.kind = "array" THEN Held(it.src[1])
  ELSE LET RECURSIVE Concat(_)
           Concat(ms) ==
             IF Len(ms) = 0 THEN <<>>
             ELSE IterUnits(marshallers[ms[1]].units) \o Concat(Tail(ms))
       IN Concat(GeneratorOrder(it.src))

\* (variant: the two functions being those of defaultMarshaller)
ContextOfDefault(self, key) == [marshaller |-> defaultMarshaller, key |-> key]
\* the context a dispatcher hands to a unit: { marshal, unmarshal, key }, the
\* two functions being those of the dispatcher `self` itself
Context(self, key) == [marshaller |-> self, key |-> key]

\* (variant: one loop over all the units, as before units had a generic flag)
InPhaseSingleLoop(unit, phase) == phase = "specific"
\* a unit takes part in the first loop when it is not generic, in the second
\* when it is
InPhase(unit, phase) == unit.generic = (phase = "generic")

\* (variant: nothing is returned when no unit matched)
FallbackUndefined(value) == Undefined
\* what the dispatcher returns when no unit matched
Fallback(value) == value


(***************************************************************************)
(* The dispatcher of createMarshaller and the unit callbacks.  They call   *)
(* each other: a callback passes nested values back through ctx.marshal /  *)
(* ctx.unmarshal.  dir is "marshal" or "unmarshal"; depth counts the       *)
(* dispatcher frames on the stack.                                         *)
(***************************************************************************)
RECURSIVE Run(_, _, _, _, _)
RECURSIVE Invoke(_, _, _, _, _)

\* ctx.marshal(value, key) / ctx.unmarshal(value, key), called from a callback
\* running at `depth`
Passback(dir, ctx, value, key, depth) ==
  Run(dir, ctx.marshaller, value, key, depth + 1)

\* the least number of a nonempty set of numbers
Least(S) == CHOOSE e \in S : \A d \in S : e <= d

\* the second component of the pair of `pairs` whose first component is i
At(pairs, i) == (CHOOSE p \in pairs : p[1] = i)[2]

RECURSIVE Flatten(_)
Flatten(seqs) == IF Len(seqs) = 0 THEN <<>> ELSE Head(seqs) \o Flatten(Tail(seqs))

\* what a map over `items` gives, rs pairing each item's index with what
\* passing it back gives: the values in order; the first item that throws
\* ends the map with its error
Mapped(items, rs) ==
  IF rs = {} THEN [ok |-> TRUE, value |-> <<>>, runs |-> <<>>]
  ELSE LET failed == {i \in 1..Len(items) : ~At(rs, i).ok}
           upto == IF failed = {} THEN Len(items) ELSE Least(failed)
       IN [ok |-> failed = {},
           value |-> IF failed = {} THEN [i \in 1..Len(items) |-> At(rs, i).value]
                     ELSE At(rs, upto).value,
           runs |-> Flatten([i \in 1..upto |-> At(rs, i).runs])]

\* items.map(([k, v]) => passback(v, k))
MapRun(dir, ctx, items, depth) ==
  Mapped(items, {<<i, Passback(dir, ctx, items[i][2], items[i][1], depth)>> :
                   i \in 1..Len(items)})

\* the elements of an array with their indexes as keys: (v, i) => ...
Indexed(elems) == [i \in 1..Len(elems) |-> <<Num(i - 1), elems[i]>>]
\* the properties of an object with their names as keys: ([k, v]) => ...
Keyed(entries) == [i \in 1..Len(entries) |-> <<Str(entries[i][1]), entries[i][2]>>]
\* (variant: the properties passed back without their names, as before
\* marshal and unmarshal took a key)
Unkeyed(entries) == [i \in 1..Len(entries) |-> <<Null, entries[i][2]>>]
\* the labels an array unit and an object unit pass back with
ArrayItems(elems) == Indexed(elems)
ObjectItems(entries) == Keyed(entries)
Zip(entries, values) == [i \in 1..Len(entries) |-> <<entries[i][1], values[i]>>]

DateMarshal(value) ==
  IF value.kind # "date" THEN pass
  ELSE IF value.val = <<>> THEN throw(RangeError, <<>>)
  ELSE morph(Str(ToISOString(value.val[1])), <<>>)

DateUnmarshal(value) ==
  IF value.kind # "str" THEN pass
  ELSE IF ~MatchesDatePrefix(value.val) THEN pass
  ELSE LET date == DateParse(value.val) IN
       IF date = <<>> THEN pass ELSE morph(NewDate(date), <<>>)

BigintMarshal(value) ==
  IF value.kind = "bigint" THEN morph(Str(BigintToString(value.val)), <<>>) ELSE pass

BigintUnmarshal(value) ==
  IF value.kind # "str" \/ ~MatchesDigits(value.val) THEN pass
  ELSE morph(BigInt(ParseNat(value.val)), <<>>)

\* (variant: the array returned as it is, its elements not passed back)
ArrayCallbackShallow(dir, value, ctx, depth) ==
  IF value.kind # "array" THEN pass ELSE morph(NewArray(value.val), <<>>)
\* (variant: the elements passed back are written into the array itself:
\* value.forEach((v, i) => value[i] = ...), and the array is returned)
ArrayCallbackInPlace(dir, value, ctx, depth) ==
  IF value.kind # "array" THEN pass
  ELSE MorphOf(MapRun(dir, ctx, ArrayItems(value.val), depth),
               LAMBDA vs : [value EXCEPT !.val = vs])
\* ArrayMarshalUnit, both directions
ArrayCallback(dir, value, ctx, depth) ==
  IF value.kind # "array" THEN pass
  ELSE MorphOf(MapRun(dir, ctx, ArrayItems(value.val), depth), NewArray)

\* (variant: the recased object returned as it is, not passed back)
RecaseCallbackShallow(dir, case, value, ctx, depth) ==
  IF ~IsObject(value) THEN pass
  ELSE LET es == Entries(value) IN
       IF \E i \in 1..Len(es) : ApplyCase(case, es[i][1]) # es[i][1]
         THEN morph(NewObject(FromEntries(
                [i \in 1..Len(es) |-> <<ApplyCase(case, es[i][1]), es[i][2]>>])), <<>>)
         ELSE pass
\* RecaseMarshalUnit, both directions: case is marshalCase or unmarshalCase
RecaseCallback(dir, case, value, ctx, depth) ==
  IF ~IsObject(value) THEN pass
  ELSE LET es == Entries(value)
           changed == \E i \in 1..Len(es) : ApplyCase(case, es[i][1]) # es[i][1]
           result == NewObject(FromEntries(
                       [i \in 1..Len(es) |-> <<ApplyCase(case, es[i][1]), es[i][2]>>]))
       IN IF changed
            THEN MorphOf(Passback(dir, ctx, result, ctx.key, depth), LAMBDA v : v)
            ELSE pass

\* ObjectMarshalUnit, both directions
ObjectCallback(dir, value, ctx, depth) ==
  IF ~IsObject(value) THEN pass
  ELSE LET es == Entries(value) IN
       MorphOf(MapRun(dir, ctx, ObjectItems(es), depth),
               LAMBDA vs : NewObject(FromEntries(Zip(es, vs))))

SetMarshal(value, ctx, depth) ==
  IF value.kind # "set" THEN pass
  ELSE MorphOf(MapRun("marshal", ctx, Indexed(value.val), depth),
               LAMBDA vs : NewObject(<< <<SetKey, NewArray(vs)>> >>))

SetUnmarshal(value, ctx, depth) ==
  LET set == IF IsObject(value) THEN Property(value, SetKey) ELSE <<>> IN
  IF set = <<>> THEN pass
  ELSE IF set[1].kind # "array" THEN pass
  ELSE MorphOf(MapRun("unmarshal", ctx, Indexed(set[1].val), depth), NewSet)

\* IgnoreMarshalUnit(...types), both directions: types are the kinds of the
\* constructors' instances
IgnoreCallback(types, value) ==
  IF \E i \in 1..Len(types) : value.kind = types[i] THEN morph(value, <<>>) ELSE pass

\* (variant: what toJSON returns is returned as it is, not passed back)
ToJsonMarshalRaw(value, ctx, depth) ==
  IF HasToJSON(value) THEN morph(ToJSON(value), <<>>) ELSE pass
ToJsonMarshal(value, ctx, depth) ==
  IF HasToJSON(value)
    THEN MorphOf(Passback("marshal", ctx, ToJSON(value), ctx.key, depth), LAMBDA v : v)
    ELSE pass

\* KeyTestMarshalUnit of the tests
KeyTestMarshal(value) ==
  IF value.kind = "date" THEN morph(ToNumber(value), <<>>) ELSE pass

KeyTestUnmarshal(value, ctx) ==
  IF ctx.key.kind = "str" /\ EndsWithTime(ctx.key.val)
    THEN LET n == ToNumber(value) IN
         IF n = TypeError THEN throw(TypeError, <<>>) ELSE morph(DateFromNumber(n), <<>>)
    ELSE pass

\* the custom unit of the 'Custom Marshallers' test, either direction
ReplaceCallback(par, value) ==
  IF value.kind = "str" /\ value.val = par[1] THEN morph(Str(par[2]), <<>>) ELSE pass

\* the Uint8Array unit of the 'Finalizer' test
BytesMarshal(value) ==
  IF value.kind = "bytes" THEN morph(Str(Base64Encode(BytesOf(value))), <<>>) ELSE pass

\* unit.marshal(value, ctx) / unit.unmarshal(value, ctx) for the callback cb
Invoke(cb, dir, value, ctx, depth) ==
  CASE cb.fn = "DateMarshal" -> DateMarshal(value)
    [] cb.fn = "DateUnmarshal" -> DateUnmarshal(value)
    [] cb.fn = "BigintMarshal" -> BigintMarshal(value)
    [] cb.fn = "BigintUnmarshal" -> BigintUnmarshal(value)
    [] cb.fn \in {"ArrayMarshal", "ArrayUnmarshal"} -> ArrayCallback(dir, value, ctx, depth)
    [] cb.fn = "Recase" -> RecaseCallback(dir, cb.par[1], value, ctx, depth)
    [] cb.fn \in {"ObjectMarshal", "ObjectUnmarshal"} -> ObjectCallback(dir, value, ctx, depth)
    [] cb.fn = "SetMarshal" -> SetMarshal(value, ctx, depth)
    [] cb.fn = "SetUnmarshal" -> SetUnmarshal(value, ctx, depth)
    [] cb.fn = "Ignore" -> IgnoreCallback(cb.par, value)
    [] cb.fn = "ToJsonMarshal" -> ToJsonMarshal(value, ctx, depth)
    [] cb.fn = "Pass" -> pass
    [] cb.fn = "KeyTestMarshal" -> KeyTestMarshal(value)
    [] cb.fn = "KeyTestUnmarshal" -> KeyTestUnmarshal(value, ctx)
    [] cb.fn = "Replace" -> ReplaceCallback(cb.par, value)
    [] cb.fn = "BytesMarshal" -> BytesMarshal(value)
    [] cb.fn = "Always" -> morph(Str(cb.par[1]), <<>>)

\* the record of one dispatcher run: the units it invoked in order (tried: the
\* position of each in the unit sequence, the unit, the key its context carried
\* and what it returned) and what the run returned
RunRecord(fr, tried, ok, result) ==
  [dir |-> fr.dir, depth |-> fr.depth, key |-> fr.key, value |-> fr.value,
   tried |-> tried, ok |-> ok, result |-> result]

\* (variant: the loop goes on after a match)
SuccessIgnored(result) == FALSE
\* if (result.success) return result.value
Success(result) == result.status = "morph"

\* the positions of `units` one loop of marshal / unmarshal does not skip:
\* the first loop skips the generic units, the second the others
LoopOrder(units, phase) ==
  SelectSeq([i \in 1..Len(units) |-> i], LAMBDA i : InPhase(units[i], phase))

\* what one loop over the units at the positions `order` comes to, results
\* pairing each step of the loop with what its unit returns for the value:
\* whether the loop ran out, the result that ended it otherwise, and the
\* units it invoked.  The loop looks at no result after the one that ends
\* it.  A callback that throws ends the run with its error: nothing catches
\* it.
Looped(fr, units, order, results) ==
  IF results = {} THEN [ranOut |-> TRUE, result |-> pass, tried |-> <<>>]
  ELSE LET ends == {e \in 1..Len(order) :
                      \/ At(results, e).status = "throw"
                      \/ Success(At(results, e))}
           last == IF ends = {} THEN Len(order) ELSE Least(ends)
       IN [ranOut |-> ends = {},
           result |-> IF ends = {} THEN pass ELSE At(results, last),
           tried |-> [e \in 1..last |->
                        [pos |-> order[e], unit |-> units[order[e]],
                         key |-> Context(fr.self, fr.key).key,
                         status |-> At(results, e).status]]]

\* one loop of marshal / unmarshal over the units at the positions `order`
Scan(fr, units, order) ==
  Looped(fr, units, order,
         {<<e, Invoke(units[order[e]][fr.dir], fr.dir, fr.value,
                      Context(fr.self, fr.key), fr.depth)>> : e \in 1..Len(order)})

\* (variant: the dispatcher catches what a callback throws and returns the
\* value itself)
ReturnedCatching(fr, tried, result) ==
  LET returned == IF result.status = "morph" THEN result.value ELSE Fallback(fr.value)
  IN [ok |-> TRUE, value |-> returned,
      runs |-> <<RunRecord(fr, tried, TRUE, returned)>> \o result.runs]
\* what a run returns, given the units it invoked and the result that ended
\* it (pass when both loops ran out: the value itself is returned)
Returned(fr, tried, result) ==
  LET ok == result.status # "throw"
      returned == IF result.status = "pass" THEN Fallback(fr.value) ELSE result.value
  IN [ok |-> ok, value |-> returned,
      runs |-> <<RunRecord(fr, tried, ok, returned)>> \o result.runs]

\* the second loop, over the generic units, after the first loop invoked
\* the units `tried` and ran out
AfterSecondLoop(fr, tried, second) ==
  Returned(fr, tried \o second.tried, second.result)
SecondLoop(fr, units, tried) ==
  AfterSecondLoop(fr, tried, Scan(fr, units, LoopOrder(units, "generic")))

\* the first loop, over the units that are not generic
AfterFirstLoop(fr, units, first) ==
  IF first.ranOut THEN SecondLoop(fr, units, first.tried)
  ELSE Returned(fr, first.tried, first.result)
FirstLoop(fr, units) ==
  AfterFirstLoop(fr, units, Scan(fr, units, LoopOrder(units, "specific")))

\* self.marshal(value, key) / self.unmarshal(value, key) of the marshaller
\* `self` that createMarshaller returned: the loop over the specific units,
\* then the loop over the generic ones, then the value itself.  A run that
\* would need more than MaxStack dispatcher frames ends as the engine ends
\* it: with a RangeError.
Run(dir, self, value, key, depth) ==
  IF depth > MaxStack
    THEN [ok |-> FALSE, value |-> RangeError, runs |-> <<>>]
    ELSE FirstLoop([dir |-> dir, self |-> self, value |-> value, key |-> key,
                    depth |-> depth],
                   IterUnits(marshallers[self].units))


(***************************************************************************)
(* Marshaller objects and addMarshallerFinalizer.                          *)
(***************************************************************************)
\* what createMarshaller(units) returns: self = { marshal, unmarshal, units }
Created(units) == [kind |-> "created", units |-> units, base |-> 0, finalizer |-> ""]
\* what addMarshallerFinalizer(base, finalizer) returns; its units are base.units
Finalized(base, finalizer) ==
  [kind |-> "finalized", units |-> marshallers[base].units, base |-> base,
   finalizer |-> finalizer]

BytesKey == <<"b", "y", "t", "e", "s">>

\* the finalizer of the 'Finalizer' test: a string property `bytes` of the
\* value is replaced, in the value itself, by the bytes it encodes
RestoreBytes(value) ==
  LET bytes == IF IsObject(value) THEN Property(value, BytesKey) ELSE <<>> IN
  IF bytes # <<>> /\ bytes[1].kind = "str" /\ value.kind \in {"object", "foo"}
    THEN [value EXCEPT !.val =
            [i \in 1..Len(value.val) |->
               IF value.val[i][1] = BytesKey
                 THEN <<BytesKey, NewBytes(Base64Decode(bytes[1].val))>>
                 ELSE value.val[i]]]
    ELSE value

\* finalizer(value), for the finalizers the model draws from
ApplyFinalizer(finalizer, value) ==
  CASE finalizer = "restoreBytes" -> RestoreBytes(value)
    [] finalizer = "wrap" -> NewArray(<<value>>)

\* the record of the finalizer's call, kept with the runs
FinalizerRecord(depth, value, result) ==
  [dir |-> "finalize", depth |-> depth, key |-> Null, value |-> value,
   tried |-> <<>>, ok |-> TRUE, result |-> result]

\* the key the wrapper of addMarshallerFinalizer hands on: its two functions
\* take the value only, so base runs with its default key
WrapperKey(key) == Null

\* (variant: the finalizer is left out)
FinalizedUnmarshalPlain(finalizer, r, depth) == r
\* what the wrapper's unmarshal returns, given base's result r
FinalizedUnmarshal(finalizer, r, depth) ==
  IF ~r.ok THEN r
  ELSE LET result == ApplyFinalizer(finalizer, r.value) IN
       [ok |-> TRUE, value |-> result,
        runs |-> r.runs \o <<FinalizerRecord(depth, r.value, result)>>]

\* (variant: the finalizer is applied on marshal as well)
FinalizedMarshalApplied(finalizer, r, depth) == FinalizedUnmarshal(finalizer, r, depth)
\* what the wrapper's marshal returns, given base's result r
FinalizedMarshal(finalizer, r, depth) == r

RECURSIVE CallMarshaller(_, _, _, _, _)
\* m.marshal(value, key) / m.unmarshal(value, key) for any marshaller object m
CallMarshaller(m, dir, value, key, depth) ==
  IF marshallers[m].kind = "created" THEN Run(dir, m, value, key, depth)
  ELSE IF dir = "marshal"
    THEN FinalizedMarshal(marshallers[m].finalizer,
           CallMarshaller(marshallers[m].base, "marshal", value, WrapperKey(key), depth),
           depth)
    ELSE FinalizedUnmarshal(marshallers[m].finalizer,
           CallMarshaller(marshallers[m].base, "unmarshal", value, WrapperKey(key), depth),
           depth)


(***************************************************************************)
(* The operations of the library and of its callers.                       *)
(***************************************************************************)
NoCall ==
  [m |-> 0, dir |-> "", value |-> Undefined, key |-> Null, ok |-> TRUE,
   result |-> Undefined, runs |-> <<>>, from |-> <<>>]

\* the record of the call m[dir](value, key); from is <<d>> when value is
\* what m.marshal(d) returned just before
Recorded(m, dir, value, key, from, r) ==
  [m |-> m, dir |-> dir, value |-> value, key |-> key, ok |-> r.ok,
   result |-> r.value, runs |-> r.runs, from |-> from]
CallRecord(m, dir, value, key, from) ==
  Recorded(m, dir, value, key, from, CallMarshaller(m, dir, value, key, 1))

\* createMarshaller(units)
CreateMarshaller(units) ==
  /\ call = NoCall
  /\ Len(marshallers) < MaxMarshallers
  /\ arrays' = Append(arrays, units)
  /\ marshallers' = Append(marshallers, Created(ArrayIter(Len(arrays) + 1)))
  /\ call' = NoCall
  /\ UNCHANGED <<extensions, pushes>>

\* combineMarshallers(...ms)
CombineMarshallers(ms) ==
  /\ call = NoCall
  /\ Len(marshallers) < MaxMarshallers
  /\ marshallers' = Append(marshallers, Created(GeneratorIter(ms)))
  /\ call' = NoCall
  /\ UNCHANGED <<arrays, extensions, pushes>>

\* (variant: base first)
ExtendOrderBaseFirst(new, base) == <<base, new>>
\* the marshallers extendMarshaller combines, in order: the one of the new
\* units, then base
ExtendOrder(new, base) == <<new, base>>

\* extendMarshaller(base, units) = combineMarshallers(createMarshaller(units), base)
ExtendMarshaller(base, units) ==
  /\ call = NoCall
  /\ Len(marshallers) + 1 < MaxMarshallers
  /\ arrays' = Append(arrays, units)
  /\ marshallers' =
       LET new == Len(marshallers) + 1 IN
       marshallers \o <<Created(ArrayIter(Len(arrays) + 1)),
                        Created(GeneratorIter(ExtendOrder(new, base)))>>
  /\ extensions' = extensions \cup
       {[m |-> Len(marshallers) + 2, new |-> Len(marshallers) + 1, base |-> base]}
  /\ call' = NoCall
  /\ UNCHANGED pushes

\* addMarshallerFinalizer(base, finalizer)
AddMarshallerFinalizer(base, finalizer) ==
  /\ call = NoCall
  /\ Len(marshallers) < MaxMarshallers
  /\ marshallers' = Append(marshallers, Finalized(base, finalizer))
  /\ call' = NoCall
  /\ UNCHANGED <<arrays, extensions, pushes>>

\* units.push(unit), by a caller, on an array it handed to createMarshaller
Push(a, unit) ==
  /\ call = NoCall
  /\ Len(pushes) < MaxPushes
  /\ arrays' = [arrays EXCEPT ![a] = Append(@, unit)]
  /\ pushes' = Append(pushes, [a |-> a, unit |-> unit, pos |-> Len(arrays[a]) + 1,
                               built |-> Len(marshallers)])
  /\ call' = NoCall
  /\ UNCHANGED <<marshallers, extensions>>

\* m.marshal(value, key)
CallMarshal(m, value, key) ==
  /\ call = NoCall
  /\ call' = CallRecord(m, "marshal", value, key, <<>>)
  /\ UNCHANGED <<arrays, marshallers, extensions, pushes>>

\* m.unmarshal(value, key)
CallUnmarshal(m, value, key) ==
  /\ call = NoCall
  /\ call' = CallRecord(m, "unmarshal", value, key, <<>>)
  /\ UNCHANGED <<arrays, marshallers, extensions, pushes>>

\* m.unmarshal(m.marshal(d)): the second half, on what the first returned
UnmarshalResult ==
  /\ call.m # 0 /\ call.dir = "marshal" /\ call.ok /\ call.key = Null
  /\ call' = CallRecord(call.m, "unmarshal", call.result, Null, <<call.value>>)
  /\ UNCHANGED <<arrays, marshallers, extensions, pushes>>

\* the caller is done with the result of its latest call
Return ==
  /\ call # NoCall
  /\ call' = NoCall
  /\ UNCHANGED <<arrays, marshallers, extensions, pushes>>

\* the state once the module is loaded: defaultMarshaller is
\* createMarshaller(defaultMarshalUnits)
Init ==
  /\ arrays = <<defaultMarshalUnits>>
  /\ marshallers = <<Created(ArrayIter(1))>>
  /\ call = NoCall
  /\ extensions = {}
  /\ pushes = <<>>

Marshallers == 1..Len(marshallers)

(***************************************************************************)
(* Spec: the composition algebra over small unit arrays and small values.  *)
(***************************************************************************)
Foo == <<"f", "o", "o">>
Bar == <<"b", "a", "r">>
Baz == <<"b", "a", "z">>
FooBarUnit == ReplaceMarshalUnit(Foo, Bar)
FooBazUnit == ReplaceMarshalUnit(Foo, Baz)
GenericCatchAll == CatchAllMarshalUnit(<<"g">>, TRUE)
SpecificCatchAll == CatchAllMarshalUnit(<<"s">>, FALSE)

\* the unit arrays callers build marshallers from
UnitArrays ==
  {<<>>, <<FooBarUnit>>, <<GenericCatchAll>>, <<SpecificCatchAll>>,
   <<GenericCatchAll, FooBarUnit>>, <<ObjectMarshalUnit, FooBazUnit>>}

\* the values callers marshal and unmarshal: every object is the caller's (ref 1)
Values ==
  {Str(Foo), Num(1),
   Obj("object", 1, << <<Foo, Str(Foo)>> >>),
   Obj("array", 1, <<Str(Foo), Num(1)>>)}

Next ==
  \/ \E units \in UnitArrays : CreateMarshaller(units)
  \/ \E a, b \in Marshallers : CombineMarshallers(<<a, b>>)
  \/ \E base \in Marshallers, units \in UnitArrays : ExtendMarshaller(base, units)
  \/ \E base \in Marshallers : AddMarshallerFinalizer(base, "wrap")
  \/ \E m \in Marshallers, v \in Values : CallMarshal(m, v, Null)
  \/ \E m \in Marshallers, v \in Values : CallUnmarshal(m, v, Null)
  \/ UnmarshalResult
  \/ Return

Spec == Init /\ [][Next]_vars


(***************************************************************************)
(* SpecBuiltin: the built-in units at work.  The marshallers are           *)
(* defaultMarshaller, its extensions by the units of the tests, and        *)
(* finalized marshallers; the values hold dates, bigints, sets and nested  *)
(* containers.                                                             *)
(***************************************************************************)
StartTime == <<"s", "t", "a", "r", "t", "T", "i", "m", "e">>
EndTime == <<"e", "n", "d", "T", "i", "m", "e">>
FooBar == <<"f", "o", "o", "B", "a", "r">>
\* two times of day in January 1970, in ms since the epoch
Date1 == NewDate(<<3 * MsPerDay>>)
Date2 == NewDate(<<4 * MsPerDay - 1>>)
InvalidDate == NewDate(<<>>)
Set123 == Obj("set", 1, <<Num(1), Num(2), Num(3)>>)

\* RecaseMarshalUnit(key => key, key => key)
IdentityRecaseUnit == RecaseMarshalUnit("identity", "identity")

\* the unit arrays handed to extendDefaultMarshaller
BuiltinUnitArrays ==
  {<<KeyTestMarshalUnit>>, <<FooBarUnit>>,
   <<RecaseMarshalUnit("snake", "camel")>>, <<IdentityRecaseUnit>>,
   <<RecaseMarshalUnit("prefix", "unprefix")>>,
   <<IgnoreMarshalUnit(<<"foo">>)>>, <<BytesMarshalUnit>>}

\* the unit arrays handed to createMarshaller
CreatedUnitArrays == {<<KeyTestMarshalUnit, ObjectMarshalUnit>>}

\* the data callers marshal
BuiltinValues ==
  {Date1, InvalidDate, BigInt(123456), BigInt(0 - 5), Set123, Str(Foo), Null,
   Obj("array", 1, <<Num(1), BigInt(2), Date1>>),
   Obj("array", 1, <<Num(1), InvalidDate, BigInt(2)>>),
   Obj("array", 1,
       <<Obj("object", 1, << <<FooBar, BigInt(2)>> >>),
         Obj("set", 1, <<Obj("object", 1, << <<StartTime, Date1>> >>)>>)>>),
   Obj("array", 1, <<Obj("array", 1, <<BigInt(7)>>), Set123>>),
   Obj("object", 1,
       << <<Foo, Str(Bar)>>,
          <<Baz, Obj("object", 1, << <<<<"n">>, BigInt(123456)>>,
                                     <<<<"s", "e", "t">>, Set123>> >>)>> >>),
   Obj("object", 1, << <<StartTime, Date1>>, <<EndTime, Date2>>, <<Foo, Num(5)>> >>),
   Obj("object", 1, << <<FooBar, Obj("foo", 1, <<>>)>> >>),
   Obj("json", 1, << <<Foo, BigInt(1)>> >>),
   Obj("object", 1, << <<BytesKey, NewBytes(<<1, 2, 3>>)>> >>)}

\* marshalled data callers unmarshal without having marshalled it just before
MarshalledValues ==
  {Str(<<"1", "2">>), Num(7),
   Obj("object", 1, << <<EndTime, BigInt(5)>> >>),
   Obj("object", 1, << <<SetKey, Obj("array", 1, <<Num(1), Str(<<"2">>), Num(1)>>)>> >>),
   Obj("array", 1, <<Str(<<"7">>), Str(ToISOString(Date1.val[1])), Str(Foo)>>),
   Obj("object", 1,
       << <<StartTime, Num(1000)>>,
          <<Foo, Obj("array", 1, <<Obj("object", 1, << <<EndTime, Num(5)>> >>)>>)>> >>)}

BuiltinRootKeys == {Null, Str(EndTime)}

NextBuiltin ==
  \/ \E units \in CreatedUnitArrays : CreateMarshaller(units)
  \/ \E units \in BuiltinUnitArrays : ExtendMarshaller(defaultMarshaller, units)
  \/ \E base \in Marshallers : AddMarshallerFinalizer(base, "restoreBytes")
  \/ \E m \in Marshallers, v \in BuiltinValues, k \in BuiltinRootKeys :
       CallMarshal(m, v, k)
  \/ \E m \in Marshallers, v \in MarshalledValues, k \in BuiltinRootKeys :
       CallUnmarshal(m, v, k)
  \/ UnmarshalResult
  \/ Return

SpecBuiltin == Init /\ [][NextBuiltin]_vars


(***************************************************************************)
(* SpecAlias: callers that push units onto arrays they built marshallers   *)
(* from, as the 'Dynamically Extended Custom Marshallers' test does.       *)
(***************************************************************************)
AliasUnitArrays == {<<BigintMarshalUnit>>, <<GenericCatchAll>>}
PushedUnits == {DateMarshalUnit, SpecificCatchAll}
AliasValues == {Date1, BigInt(7), Str(Foo)}

NextAlias ==
  \/ \E units \in AliasUnitArrays : CreateMarshaller(units)
  \/ \E a, b \in Marshallers : CombineMarshallers(<<a, b>>)
  \/ \E units \in AliasUnitArrays : ExtendMarshaller(defaultMarshaller, units)
  \/ \E a \in 1..Len(arrays), unit \in PushedUnits : Push(a, unit)
  \/ \E m \in Marshallers, v \in AliasValues : CallMarshal(m, v, Null)
  \/ \E m \in Marshallers, v \in AliasValues : CallUnmarshal(m, v, Null)
  \/ UnmarshalResult
  \/ Return

SpecAlias == Init /\ [][NextAlias]_vars


(***************************************************************************)
(* Vocabulary of the properties.                                           *)
(***************************************************************************)
RECURSIVE Owner(_)
\* the marshaller createMarshaller returned whose functions a call on m ends in
Owner(m) == IF marshallers[m].kind = "created" THEN m ELSE Owner(marshallers[m].base)

\* the unit sequence of the marshaller the latest call was made on
CallUnits == IterUnits(marshallers[call.m].units)

\* the dispatcher runs of the latest call (the finalizer's record is not one)
DispatchRuns == {j \in 1..Len(call.runs) : call.runs[j].dir # "finalize"}

\* what `unit` returns when invoked for the node of run r
UnitResult(unit, r) ==
  Invoke(unit[r.dir], r.dir, r.value, Context(Owner(call.m), r.key), r.depth)
Matches(unit, r) == UnitResult(unit, r).status = "morph"
Passes(unit, r) == UnitResult(unit, r).status = "pass"

\* the positions of a unit sequence in the order of the two loops
PhaseOrder(units) ==
  SelectSeq([i \in 1..Len(units) |-> i], LAMBDA i : ~units[i].generic)
    \o SelectSeq([i \in 1..Len(units) |-> i], LAMBDA i : units[i].generic)

Last(seq) == seq[Len(seq)]
IsPrefix(p, q) == Len(p) <= Len(q) /\ \A i \in 1..Len(p) : p[i] = q[i]
Positions(tried) == [i \in 1..Len(tried) |-> tried[i].pos]

(***************************************************************************)
(* C1  Specific before generic.  At every node of a call, when a specific  *)
(* unit of the dispatcher and a generic unit of it both match the node's   *)
(* value, the value returned for the node is that of a specific unit and   *)
(* no generic unit was invoked, wherever the two stand in the unit         *)
(* sequence; when only one specific unit matches, it is that unit's        *)
(* result.                                                                 *)
(***************************************************************************)
C1_SpecificBeforeGeneric ==
  call.m # 0 =>
    \A j \in DispatchRuns :
      LET r == call.runs[j]
          U == CallUnits
          specific == {i \in 1..Len(U) : ~U[i].generic /\ Matches(U[i], r)}
          generic == {i \in 1..Len(U) : U[i].generic /\ Matches(U[i], r)}
      IN (specific # {} /\ generic # {}) =>
           /\ r.ok
           /\ Len(r.tried) > 0
           /\ \A e \in 1..Len(r.tried) : ~r.tried[e].unit.generic
           /\ Last(r.tried).pos \in specific
           /\ \A i \in specific :
                specific = {i} => r.result = UnitResult(U[i], r).value

\* a generic unit that matches stands before the one specific unit that
\* matches, and the call returned the specific unit's result
C1_Witness ==
  /\ call.m # 0 /\ call.runs # <<>>
  /\ LET r == call.runs[1]
         U == CallUnits
     IN \E i, j \in 1..Len(U) :
          /\ i < j /\ U[i].generic /\ ~U[j].generic
          /\ Matches(U[i], r) /\ Matches(U[j], r)
          /\ \A k \in 1..Len(U) : (~U[k].generic /\ Matches(U[k], r)) => k = j
          /\ call.result = UnitResult(U[j], r).value
          /\ call.result # UnitResult(U[i], r).value


(***************************************************************************)
(* C2  First match wins within a phase.  At every node the units are       *)
(* invoked in the order of the unit sequence, the specific ones first and  *)
(* then the generic ones; the run returns the value of the first unit in   *)
(* that order that matches, every unit invoked before it passed, and no    *)
(* unit after it is invoked (so no generic unit when a specific one        *)
(* matched).                                                               *)
(***************************************************************************)
C2_FirstMatchWins ==
  call.m # 0 =>
    \A j \in DispatchRuns :
      LET r == call.runs[j]
          U == CallUnits
          order == PhaseOrder(U)
          n == Len(r.tried)
          matching == {k \in 1..Len(order) : Matches(U[order[k]], r)}
      IN r.ok =>
         /\ IsPrefix(Positions(r.tried), order)
         /\ \A e \in 1..n : r.tried[e].unit = U[r.tried[e].pos]
         /\ \A e \in 1..(n - 1) : r.tried[e].status = "pass"
         /\ IF matching = {}
              THEN n = Len(order) /\ (n > 0 => Last(r.tried).status = "pass")
              ELSE /\ n = CHOOSE k \in matching : \A l \in matching : k <= l
                   /\ Last(r.tried).status = "morph"
                   /\ r.result = UnitResult(U[order[n]], r).value

\* two specific units match the value, or two generic ones do and no specific
\* one: the first of the two gave the result and the second was not invoked
C2_Witness ==
  /\ call.m # 0 /\ call.runs # <<>>
  /\ LET r == call.runs[1]
         U == CallUnits
     IN \E i, j \in 1..Len(U) :
          /\ i < j /\ U[i].generic = U[j].generic
          /\ Matches(U[i], r) /\ Matches(U[j], r)
          /\ Last(r.tried).pos = i
          /\ call.result = UnitResult(U[i], r).value
          /\ call.result # UnitResult(U[j], r).value
          /\ \A e \in 1..Len(r.tried) : r.tried[e].pos # j

(***************************************************************************)
(* C3  Identity fallback.  For every dispatcher, the one of an empty unit  *)
(* array included, and every node at which every unit passes, the run      *)
(* returns the value it was given, the same reference, and raises no       *)
(* error.                                                                  *)
(***************************************************************************)
C3_IdentityFallback ==
  call.m # 0 =>
    \A j \in DispatchRuns :
      LET r == call.runs[j]
          U == CallUnits
      IN (\A i \in 1..Len(U) : Passes(U[i], r)) =>
           /\ r.ok
           /\ r.result = r.value
           /\ (j = 1 /\ marshallers[call.m].kind = "created") =>
                (call.ok /\ call.result = call.value)

\* an object of the caller went through a dispatcher with units none of which
\* matched, and through one with no unit at all
C3_Witness ==
  /\ call.m # 0 /\ marshallers[call.m].kind = "created"
  /\ IsObject(call.value) /\ call.value.ref = 1
  /\ Len(CallUnits) > 0
  /\ \A i \in 1..Len(CallUnits) : Passes(CallUnits[i], call.runs[1])
  /\ call.result = call.value

C3_WitnessEmpty ==
  /\ call.m # 0 /\ marshallers[call.m].kind = "created"
  /\ CallUnits = <<>>
  /\ IsObject(call.value) /\ call.result = call.value


(***************************************************************************)
(* C4  Composition is order-preserving and phase-global.  For a marshaller *)
(* built by combineMarshallers(A, B), at every node of a call the units    *)
(* invoked, and the value returned, are those of one dispatcher over the   *)
(* list units(A) ++ units(B): the specific units of that list in order,    *)
(* then its generic units in order, up to the first that matches.          *)
(***************************************************************************)
\* the marshallers built by combineMarshallers (extendMarshaller included)
Combined == {m \in Marshallers : marshallers[m].kind = "created"
                                   /\ marshallers[m].units.kind = "generator"}
\* units(A) ++ units(B), for the marshallers A and B that m combines
Concatenation(m) ==
  IterUnits(marshallers[marshallers[m].units.src[1]].units)
    \o IterUnits(marshallers[marshallers[m].units.src[2]].units)

C4_CombineIsConcatenation ==
  (call.m \in Combined) =>
    \A j \in DispatchRuns :
      LET r == call.runs[j]
          L == Concatenation(call.m)
          order == PhaseOrder(L)
          n == Len(r.tried)
          matching == {k \in 1..Len(order) : Matches(L[order[k]], r)}
      IN r.ok =>
         /\ n <= Len(order)
         /\ \A e \in 1..n : r.tried[e].unit = L[order[e]]
         /\ IF matching = {}
              THEN n = Len(order) /\ r.result = r.value
              ELSE /\ n = CHOOSE k \in matching : \A l \in matching : k <= l
                   /\ r.result = UnitResult(L[order[n]], r).value

\* combineMarshallers(A, B) where a generic unit of A and a specific unit of B
\* both match: the specific unit of B gave the result
C4_Witness ==
  /\ call.m \in Combined /\ call.runs # <<>>
  /\ LET r == call.runs[1]
         A == IterUnits(marshallers[marshallers[call.m].units.src[1]].units)
         B == IterUnits(marshallers[marshallers[call.m].units.src[2]].units)
     IN \E i \in 1..Len(A), k \in 1..Len(B) :
          /\ A[i].generic /\ Matches(A[i], r)
          /\ ~B[k].generic /\ Matches(B[k], r)
          /\ Last(r.tried).unit = B[k]
          /\ call.result = UnitResult(B[k], r).value
          /\ call.result # UnitResult(A[i], r).value

(***************************************************************************)
(* C5  Extension precedence.  As claimed: at every node of a call on       *)
(* extendMarshaller(base, units), a unit of base is invoked only after     *)
(* every unit of `units` has been.                                         *)
(***************************************************************************)
\* the marshallers extendMarshaller(base, units) returned
Extended == {e.m : e \in extensions}
Extension(m) == CHOOSE e \in extensions : e.m = m
NewUnits(m) == IterUnits(marshallers[Extension(m).new].units)
\* the unit at position pos of m's unit sequence is one of `units`, not of base
IsNew(m, pos) ==
  LET src == marshallers[m].units.src
      first == Len(IterUnits(marshallers[src[1]].units))
  IN IF src[1] = Extension(m).new THEN pos <= first ELSE pos > first
NewPositions(m) == {i \in 1..Len(IterUnits(marshallers[m].units)) : IsNew(m, i)}
InvokedBefore(r, i, e) == \E d \in 1..(e - 1) : r.tried[d].pos = i

C5_NewUnitsBeforeBase ==
  (call.m \in Extended) =>
    \A j \in DispatchRuns :
      LET r == call.runs[j] IN
      \A e \in 1..Len(r.tried) :
        ~IsNew(call.m, r.tried[e].pos) =>
          \A i \in NewPositions(call.m) : InvokedBefore(r, i, e)

(***************************************************************************)
(* C5 as amended.  A unit of base is invoked only after every unit of      *)
(* `units` of its own phase has been, and a specific unit of `units` is    *)
(* invoked before every unit of base; a generic unit of `units` comes      *)
(* after the specific units of base.                                       *)
(***************************************************************************)
C5_NewUnitsBeforeBaseInPhase ==
  (call.m \in Extended) =>
    \A j \in DispatchRuns :
      LET r == call.runs[j]
          U == CallUnits
      IN \A e \in 1..Len(r.tried) :
           ~IsNew(call.m, r.tried[e].pos) =>
             \A i \in NewPositions(call.m) :
               IF U[i].generic /\ ~r.tried[e].unit.generic
                 THEN ~InvokedBefore(r, i, e)
                 ELSE InvokedBefore(r, i, e)

\* a specific new unit matched before any unit of base was invoked, base
\* having a unit that matches too
C5_Witness ==
  /\ call.m \in Extended /\ call.runs # <<>>
  /\ LET r == call.runs[1]
         U == CallUnits
     IN /\ IsNew(call.m, Last(r.tried).pos)
        /\ ~Last(r.tried).unit.generic
        /\ \E i \in 1..Len(U) : ~IsNew(call.m, i) /\ Matches(U[i], r)
        /\ \A e \in 1..Len(r.tried) : IsNew(call.m, r.tried[e].pos)

\* a generic new unit was invoked after the specific units of base had passed
C5_WitnessGeneric ==
  /\ call.m \in Extended /\ call.runs # <<>>
  /\ LET r == call.runs[1] IN
     \E e \in 2..Len(r.tried) :
       /\ IsNew(call.m, r.tried[e].pos) /\ r.tried[e].unit.generic
       /\ ~IsNew(call.m, r.tried[e - 1].pos) /\ ~r.tried[e - 1].unit.generic

(***************************************************************************)
(* C6  Pass-back re-enters the whole owning pipeline.  In a call on a      *)
(* marshaller built by combineMarshallers or extendMarshaller, every node  *)
(* below the root - whichever constituent the unit that passed it back     *)
(* came from - is dispatched over the full combined unit sequence with the *)
(* two-phase algorithm: the units invoked for it are units of the combined *)
(* sequence, taken in phase order from its start, all of them when none    *)
(* matches, and the node's result is what the combined marshaller returns  *)
(* for that value and key.                                                 *)
(***************************************************************************)
\* the runs of the latest call below its root node
NestedRuns == {j \in DispatchRuns : call.runs[j].depth > call.runs[1].depth}
\* the constituent (1 or 2) of the combined marshaller m that holds position pos
ConstituentOf(m, pos) ==
  IF pos <= Len(IterUnits(marshallers[marshallers[m].units.src[1]].units))
    THEN 1 ELSE 2

C6_PassbackReentersCombined ==
  (call.m # 0 /\ Owner(call.m) \in Combined) =>
    \A j \in NestedRuns :
      LET r == call.runs[j]
          U == CallUnits
          order == PhaseOrder(U)
      IN /\ IsPrefix(Positions(r.tried), order)
         /\ \A e \in 1..Len(r.tried) : r.tried[e].unit = U[r.tried[e].pos]
         /\ (r.ok /\ (r.tried = <<>> \/ Last(r.tried).status = "pass"))
              => Len(r.tried) = Len(U)
         /\ r.result = Run(r.dir, Owner(call.m), r.value, r.key, r.depth).value

\* a unit of one constituent passed a nested value back, and a unit of the
\* other constituent converted it
C6_Witness ==
  /\ call.m # 0 /\ Owner(call.m) \in Combined /\ call.runs # <<>>
  /\ LET root == call.runs[1] IN
     /\ root.tried # <<>> /\ Last(root.tried).status = "morph"
     /\ \E j \in NestedRuns :
          LET r == call.runs[j] IN
          /\ r.tried # <<>> /\ Last(r.tried).status = "morph"
          /\ ConstituentOf(Owner(call.m), Last(r.tried).pos)
               # ConstituentOf(Owner(call.m), Last(root.tried).pos)

(***************************************************************************)
(* C9  Finalizer composition.  For a marshaller made by                    *)
(* addMarshallerFinalizer(base, f) and every value x, unmarshal(x) returns *)
(* f(base.unmarshal(x)) and marshal(x) returns base.marshal(x) - the       *)
(* finalizer is not applied on marshal.                                    *)
(***************************************************************************)
WithFinalizer == {m \in Marshallers : marshallers[m].kind = "finalized"}
\* base.marshal(x) / base.unmarshal(x) for the base of the latest call's marshaller
BaseResult ==
  CallMarshaller(marshallers[call.m].base, call.dir, call.value, Null, 1)

C9_FinalizerComposition ==
  (call.m \in WithFinalizer) =>
    /\ call.ok = BaseResult.ok
    /\ call.ok =>
         call.result =
           IF call.dir = "unmarshal"
             THEN ApplyFinalizer(marshallers[call.m].finalizer, BaseResult.value)
             ELSE BaseResult.value

\* unmarshal on a finalized marshaller: base converted the value, then the
\* finalizer changed base's result
C9_Witness ==
  /\ call.m \in WithFinalizer /\ call.dir = "unmarshal" /\ call.ok
  /\ BaseResult.value # call.value
  /\ call.result # BaseResult.value

\* marshal on a finalized marshaller: base converted the value and the
\* finalizer, which would have changed the result, was not applied
C9_WitnessMarshal ==
  /\ call.m \in WithFinalizer /\ call.dir = "marshal" /\ call.ok
  /\ call.result # call.value
  /\ ApplyFinalizer(marshallers[call.m].finalizer, call.result) # call.result

(***************************************************************************)
(* C7  Recursive delegation by container units.  Under defaultMarshaller,  *)
(* at every node of a call that returns: marshal of an array gives an      *)
(* array of the same length whose i-th element is marshal(element i);      *)
(* marshal of a plain object gives an object of the same keys whose value  *)
(* at k is marshal(value at k); marshal of a Set gives an object of the    *)
(* single key $set holding the array of marshal(element) in iteration      *)
(* order; and no bigint, Date or Set is left anywhere in what marshal      *)
(* returns.  For unmarshal: an array likewise, an object holding an array  *)
(* at $set gives the Set of unmarshal(element), any other plain object     *)
(* gives an object of the same keys with unmarshal(value at k).            *)
(***************************************************************************)
\* defaultMarshaller.marshal(v) / defaultMarshaller.unmarshal(v)
Default(dir, v) == CallMarshaller(defaultMarshaller, dir, v, Null, 1).value
Keys(entries) == [i \in 1..Len(entries) |-> entries[i][1]]
\* value holds an array at $set
HoldsSet(v) ==
  v.kind = "object" /\ Property(v, SetKey) # <<>> /\ Property(v, SetKey)[1].kind = "array"

RECURSIVE Converted(_)
\* no bigint, Date, Set or other class instance at any depth of v
Converted(v) ==
  /\ v.kind \in {"undef", "null", "bool", "num", "nan", "str", "array", "object"}
  /\ IsObject(v) => \A i \in 1..Len(v.val) :
       Converted(IF v.kind = "array" THEN v.val[i] ELSE v.val[i][2])

C7_ContainersDelegate ==
  (call.m = defaultMarshaller /\ call.ok) =>
    /\ call.dir = "marshal" => Converted(call.result)
    /\ \A j \in DispatchRuns :
         LET r == call.runs[j]
             v == r.value
             out == r.result
         IN /\ v.kind = "array" =>
                 /\ out.kind = "array" /\ Len(out.val) = Len(v.val)
                 /\ \A i \in 1..Len(v.val) : out.val[i] = Default(r.dir, v.val[i])
            /\ (v.kind = "object" /\ ~(r.dir = "unmarshal" /\ HoldsSet(v))) =>
                 /\ out.kind = "object" /\ Keys(out.val) = Keys(v.val)
                 /\ \A i \in 1..Len(v.val) : out.val[i][2] = Default(r.dir, v.val[i][2])
            /\ (v.kind = "set" /\ r.dir = "marshal") =>
                 /\ out.kind = "object" /\ Keys(out.val) = <<SetKey>>
                 /\ out.val[1][2].kind = "array"
                 /\ out.val[1][2].val = [i \in 1..Len(v.val) |-> Default("marshal", v.val[i])]
            /\ (r.dir = "unmarshal" /\ HoldsSet(v)) =>
                 out = NewSet(LET elems == Property(v, SetKey)[1].val IN
                              [i \in 1..Len(elems) |-> Default("unmarshal", elems[i])])

\* marshal([1, 2n, date]) returned [1, '2', the ISO string of date]
C7_Witness ==
  /\ call.m = defaultMarshaller /\ call.dir = "marshal" /\ call.ok
  /\ call.value = Obj("array", 1, <<Num(1), BigInt(2), Date1>>)
  /\ call.result =
       NewArray(<<Num(1), Str(<<"2">>),
                  Str(<<"1", "9", "7", "0", "-", "0", "1", "-", "0", "4", "T",
                        "0", "0", ":", "0", "0", ":", "0", "0", ".", "0", "0", "0", "Z">>)>>)

\* a Set inside an object inside an object was marshalled to { $set: [...] }
C7_WitnessNested ==
  /\ call.m = defaultMarshaller /\ call.dir = "marshal" /\ call.ok
  /\ \E j \in DispatchRuns :
       /\ call.runs[j].depth = 3 /\ call.runs[j].value.kind = "set"
       /\ call.runs[j].result = NewObject(<< <<SetKey, NewArray(<<Num(1), Num(2), Num(3)>>)>> >>)

\* unmarshal turned two strings of an array into a bigint and a Date
C7_WitnessUnmarshal ==
  /\ call.m = defaultMarshaller /\ call.dir = "unmarshal" /\ call.ok
  /\ call.value.kind = "array" /\ call.result.kind = "array"
  /\ \E i \in 1..Len(call.result.val) : call.result.val[i].kind = "bigint"
  /\ \E i \in 1..Len(call.result.val) : call.result.val[i].kind = "date"

\* unmarshal turned { $set: [1, '2', 1] } into the Set of 1 and 2n
C7_WitnessUnmarshalSet ==
  /\ call.m = defaultMarshaller /\ call.dir = "unmarshal" /\ call.ok
  /\ HoldsSet(call.value)
  /\ call.result = NewSet(<<Num(1), BigInt(2)>>)

(***************************************************************************)
(* C8  Key propagation.  In every call, all the units invoked for a node,  *)
(* in both loops, are given the same key, the node's label: null for the   *)
(* root when the call names no key (the key of the call when it is made    *)
(* on a dispatcher), the index for an element an array unit or a set unit  *)
(* passes back, the property name for a value an object unit passes back,  *)
(* and the node's own key when a recase or toJSON unit passes the node     *)
(* back.  So the unit that matches when the key ends in 'Time', put first, *)
(* converts exactly the nodes at such keys.                                *)
(***************************************************************************)
RootDepth == call.runs[1].depth
\* the runs a callback of run j started, in order
Children(j) ==
  SelectSeq([i \in 1..Len(call.runs) |-> i],
            LAMBDA i : /\ i > j /\ i \in DispatchRuns
                       /\ call.runs[i].depth = call.runs[j].depth + 1
                       /\ \A h \in (j + 1)..(i - 1) :
                            call.runs[h].depth > call.runs[j].depth)

\* what the unit that run r stopped at passes back: the labels, each with
\* <<the nested value>> (<<>> where the unit builds the value it passes back)
PassedBack(r) ==
  IF r.tried = <<>> \/ Last(r.tried).status = "pass" THEN <<>>
  ELSE LET fn == Last(r.tried).unit[r.dir].fn
           v == r.value
       IN CASE fn \in {"ArrayMarshal", "ArrayUnmarshal", "SetMarshal"} ->
                 [i \in 1..Len(v.val) |-> <<Num(i - 1), <<v.val[i]>> >>]
            [] fn = "SetUnmarshal" ->
                 LET elems == Property(v, SetKey)[1].val IN
                 [i \in 1..Len(elems) |-> <<Num(i - 1), <<elems[i]>> >>]
            [] fn \in {"ObjectMarshal", "ObjectUnmarshal"} ->
                 LET es == Entries(v) IN
                 [i \in 1..Len(es) |-> <<Str(es[i][1]), <<es[i][2]>> >>]
            [] fn = "Recase" -> << <<r.key, <<>> >> >>
            [] fn = "ToJsonMarshal" -> << <<r.key, <<ToJSON(v)>> >> >>
            [] OTHER -> <<>>

HasTimeKey(r) == r.key.kind = "str" /\ EndsWithTime(r.key.val)

C8_KeyPropagation ==
  (call.m # 0 /\ call.runs # <<>>) =>
    /\ call.key = Null => call.runs[1].key = Null
    /\ marshallers[call.m].kind = "created" => call.runs[1].key = call.key
    /\ \A j \in DispatchRuns :
         LET r == call.runs[j]
             ch == Children(j)
             items == PassedBack(r)
         IN /\ \A e \in 1..Len(r.tried) : r.tried[e].key = r.key
            /\ Len(ch) <= Len(items)
            /\ r.ok => Len(ch) = Len(items)
            /\ \A i \in 1..Len(ch) :
                 /\ call.runs[ch[i]].key = items[i][1]
                 /\ items[i][2] # <<>> => call.runs[ch[i]].value = items[i][2][1]
            /\ (r.dir = "unmarshal" /\ r.ok /\ CallUnits[1] = KeyTestMarshalUnit) =>
                 /\ r.tried[1].unit = KeyTestMarshalUnit
                 /\ (r.tried[1].status = "morph") <=> HasTimeKey(r)
                 /\ HasTimeKey(r) => r.result = DateFromNumber(ToNumber(r.value))

\* under the extension by the key-testing unit, unmarshal made Dates of the
\* numbers at startTime and endTime and left the number at foo as it was
C8_Witness ==
  /\ call.m \in Extended /\ call.dir = "unmarshal" /\ call.ok /\ call.key = Null
  /\ CallUnits[1] = KeyTestMarshalUnit
  /\ \E j \in DispatchRuns :
       call.runs[j].key = Str(StartTime) /\ call.runs[j].result = Date1
  /\ \E j \in DispatchRuns :
       call.runs[j].key = Str(EndTime) /\ call.runs[j].result = Date2
  /\ \E j \in DispatchRuns :
       call.runs[j].key = Str(Foo) /\ call.runs[j].result = Num(5)

\* an element of an array that is the value of a property: the element's key
\* is its index, the array's key the property's name, the root's key null
C8_WitnessIndex ==
  /\ call.m # 0 /\ call.runs # <<>> /\ call.runs[1].key = Null
  /\ \E j \in DispatchRuns :
       /\ call.runs[j].key = Str(Foo) /\ call.runs[j].value.kind = "array"
       /\ Len(Children(j)) = 1 /\ call.runs[Children(j)[1]].key = Num(0)
       /\ Len(Children(Children(j)[1])) = 1
       /\ call.runs[Children(Children(j)[1])[1]].key = Str(EndTime)

(***************************************************************************)
(* C10  Round trip of the built-in types.  Under defaultMarshaller,        *)
(* unmarshal(marshal(d)) returns a value deep-equal to d for every d that  *)
(* is a Date, a bigint, a Set of primitives, or an array or plain object   *)
(* of such values nested to any depth.                                     *)
(***************************************************************************)
RECURSIVE DeepEqual(_, _)
\* a and b are equal as toEqual compares them: the same type and contents,
\* whichever objects they are; arrays in order, properties and Set elements
\* in any order
DeepEqual(a, b) ==
  /\ a.kind = b.kind
  /\ CASE ~IsObject(a) -> a = b
       [] a.kind = "date" -> a.val = b.val
       [] a.kind \in {"array", "bytes"} ->
            /\ Len(a.val) = Len(b.val)
            /\ \A i \in 1..Len(a.val) : DeepEqual(a.val[i], b.val[i])
       [] a.kind = "set" ->
            /\ Len(a.val) = Len(b.val)
            /\ \A i \in 1..Len(a.val) : \E j \in 1..Len(b.val) : DeepEqual(a.val[i], b.val[j])
       [] OTHER ->
            /\ Len(a.val) = Len(b.val)
            /\ \A i \in 1..Len(a.val) : \E j \in 1..Len(b.val) :
                 a.val[i][1] = b.val[j][1] /\ DeepEqual(a.val[i][2], b.val[j][2])

RECURSIVE Supported(_)
\* the data the round trip is stated for: valid Dates, bigints, the other
\* primitives, Sets of primitives, arrays and plain objects of these
Supported(d) ==
  CASE d.kind = "date" -> d.val # <<>>
    [] ~IsObject(d) -> TRUE
    [] d.kind = "set" -> \A i \in 1..Len(d.val) : ~IsObject(d.val[i])
    [] d.kind = "array" -> \A i \in 1..Len(d.val) : Supported(d.val[i])
    [] d.kind = "object" -> \A i \in 1..Len(d.val) : Supported(d.val[i][2])
    [] OTHER -> FALSE

\* the latest call is the second half of defaultMarshaller's round trip of d
RoundTripOf(d) ==
  /\ call.m = defaultMarshaller /\ call.dir = "unmarshal" /\ call.from = <<d>>

C10_RoundTrip ==
  \A d \in BuiltinValues :
    (RoundTripOf(d) /\ Supported(d)) => (call.ok /\ DeepEqual(call.result, d))


(***************************************************************************)
(* C11  Live aliasing under composition.  A marshaller built by            *)
(* combineMarshallers or extendMarshaller dispatches, in every call, over  *)
(* the concatenation of the arrays its constituents were created from as   *)
(* those arrays are at the time of the call: a unit pushed onto such an    *)
(* array after the marshaller was built stands at its place in its         *)
(* constituent's array, after the units of the earlier constituents, and   *)
(* takes part in the two loops there; a node every pushed unit passes is   *)
(* handled as it was before the push.                                      *)
(***************************************************************************)
RECURSIVE LiveUnits(_)
\* the arrays the constituents of an iterable were created from, as they are
\* now, one after the other
LiveUnits(it) ==
  IF it.kind = "array" THEN arrays[it.src[1]]
  ELSE Flatten([k \in 1..Len(it.src) |-> LiveUnits(marshallers[it.src[k]].units)])

\* the units pushed onto array a
PushedOnto(a) == {i \in 1..Len(pushes) : pushes[i].a = a}

RECURSIVE UnitsBefore(_)
\* the same arrays without the units pushed onto them
UnitsBefore(it) ==
  IF it.kind = "array"
    THEN SubSeq(arrays[it.src[1]], 1,
                Len(arrays[it.src[1]]) - Cardinality(PushedOnto(it.src[1])))
    ELSE Flatten([k \in 1..Len(it.src) |-> UnitsBefore(marshallers[it.src[k]].units)])

\* the number of units the constituents of m before the k-th hold
Offset(m, k) ==
  Len(Flatten([h \in 1..(k - 1) |->
                 LiveUnits(marshallers[marshallers[m].units.src[h]].units)]))

\* the value the first unit of `units`, in the order of the two loops, that
\* matches at run r gives; the value of r itself when none matches
FirstMatch(units, r) ==
  LET order == PhaseOrder(units)
      matching == {k \in 1..Len(order) : Matches(units[order[k]], r)}
  IN IF matching = {} THEN r.value
     ELSE UnitResult(units[order[Least(matching)]], r).value

C11_LiveAliasing ==
  (call.m \in Combined) =>
    LET it == marshallers[call.m].units
        L == LiveUnits(it)
    IN /\ CallUnits = L
       /\ \A i \in 1..Len(pushes) : \A k \in 1..Len(it.src) :
            marshallers[it.src[k]].units = ArrayIter(pushes[i].a) =>
              L[Offset(call.m, k) + pushes[i].pos] = pushes[i].unit
       /\ \A j \in DispatchRuns :
            LET r == call.runs[j] IN
            r.ok =>
              /\ IsPrefix(Positions(r.tried), PhaseOrder(L))
              /\ \A e \in 1..Len(r.tried) : r.tried[e].unit = L[r.tried[e].pos]
              /\ r.result = FirstMatch(L, r)
              /\ (\A i \in 1..Len(pushes) : Passes(pushes[i].unit, r)) =>
                   r.result = FirstMatch(UnitsBefore(it), r)

\* a call on a combined marshaller built before the push: the pushed unit,
\* standing after the units of the first constituent, gave the result, which
\* is not what the units there were before give
C11_Witness ==
  /\ call.m \in Combined /\ call.runs # <<>> /\ Len(pushes) > 0
  /\ call.m <= pushes[1].built
  /\ marshallers[marshallers[call.m].units.src[2]].units = ArrayIter(pushes[1].a)
  /\ Offset(call.m, 2) > 0
  /\ Last(call.runs[1].tried).pos = Offset(call.m, 2) + pushes[1].pos
  /\ Last(call.runs[1].tried).unit = pushes[1].unit
  /\ Last(call.runs[1].tried).status = "morph"
  /\ call.result # FirstMatch(UnitsBefore(marshallers[call.m].units), call.runs[1])

\* after the push, a value the pushed unit passes is handled by the unit that
\* handled it before
C11_WitnessOther ==
  /\ call.m \in Combined /\ call.runs # <<>> /\ Len(pushes) > 0
  /\ call.m <= pushes[1].built
  /\ Passes(pushes[1].unit, call.runs[1])
  /\ call.result # call.value
  /\ Len(CallUnits) > Len(UnitsBefore(marshallers[call.m].units))

(***************************************************************************)
(* C12  The object unit as the identity-key case of the recase unit.  As   *)
(* claimed: at every node of every call, in both directions,               *)
(* RecaseMarshalUnit(k => k, k => k) returns what ObjectMarshalUnit        *)
(* returns - matched, with every property converted, for an object,        *)
(* unmatched otherwise - and where it was invoked it returned just that.   *)
(***************************************************************************)
C12_IdentityRecaseIsObjectUnit ==
  call.m # 0 =>
    \A j \in DispatchRuns :
      LET r == call.runs[j]
          asObject == UnitResult(ObjectMarshalUnit, r)
          asRecase == UnitResult(IdentityRecaseUnit, r)
      IN /\ asRecase.status = asObject.status
         /\ asRecase.value = asObject.value
         /\ \A e \in 1..Len(r.tried) :
              r.tried[e].unit = IdentityRecaseUnit => r.tried[e].status = asObject.status

(***************************************************************************)
(* C13  Error propagation.  When a unit callback throws at a node of a     *)
(* call, at the root or below it, no unit is invoked for that node after   *)
(* it, the run of that node and of every node above it ends with that      *)
(* error, nothing else is dispatched afterwards, a finalizer is not        *)
(* applied, and the call ends with that same error.                        *)
(***************************************************************************)
\* the runs of the latest call that ended with an error
FailedRuns == {j \in DispatchRuns : ~call.runs[j].ok}

C13_ErrorPropagation ==
  call.m # 0 =>
    /\ \A j \in DispatchRuns :
         LET r == call.runs[j] IN
         /\ \A e \in 1..Len(r.tried) :
              r.tried[e].status = "throw" =>
                /\ e = Len(r.tried)
                /\ ~r.ok /\ r.result = UnitResult(r.tried[e].unit, r).value
         /\ ~r.ok =>
              /\ r.tried # <<>> /\ Last(r.tried).status = "throw"
              /\ ~call.ok /\ call.result = r.result
              /\ \A i \in (j + 1)..Len(call.runs) :
                   /\ call.runs[i].depth > r.depth
                   /\ (call.runs[i].depth = r.depth + 1 /\ i < Len(call.runs)
                        /\ call.runs[i + 1].depth <= r.depth + 1) => call.runs[i].ok
    /\ ~call.ok =>
         /\ \A j \in 1..Len(call.runs) : call.runs[j].dir # "finalize"
         /\ call.runs # <<>> => 1 \in FailedRuns

\* a callback threw two levels below the root: the element after the one
\* that threw was not dispatched and the call ended with the error
C13_Witness ==
  /\ call.m # 0 /\ ~call.ok /\ call.result = RangeError
  /\ call.value = Obj("array", 1, <<Num(1), InvalidDate, BigInt(2)>>)
  /\ \E j \in FailedRuns : call.runs[j].depth > call.runs[1].depth
                             /\ call.runs[j].value = InvalidDate
  /\ \A j \in DispatchRuns : call.runs[j].value # BigInt(2)

\* unmarshal on a marshaller with a finalizer ended with the error of a
\* callback of base
C13_WitnessFinalized ==
  /\ call.m # 0 /\ marshallers[call.m].kind = "finalized" /\ ~call.ok
  /\ call.dir = "unmarshal" /\ call.result = TypeError
  /\ \E j \in FailedRuns : call.runs[j].depth > call.runs[1].depth

(***************************************************************************)
(* C14  Recasing round trip.  Under extendDefaultMarshaller of             *)
(* RecaseMarshalUnit(f, g), for a value v every key k of which has         *)
(* g(f(k)) = k, f(f(k)) = f(k) and g(g(f(k))) = g(f(k)): marshal(v) is     *)
(* what the default marshaller gives for v with every key k of every plain *)
(* object in it, at every depth, inside arrays and sets too, renamed to    *)
(* f(k); and unmarshal(marshal(v)) is deep-equal to v whenever the default *)
(* marshaller's own round trip of v is.                                    *)
(***************************************************************************)
RECURSIVE KeysIn(_)
\* the keys of the plain objects in v, at every depth
KeysIn(v) ==
  CASE v.kind = "object" ->
         {v.val[i][1] : i \in 1..Len(v.val)}
           \cup UNION {KeysIn(v.val[i][2]) : i \in 1..Len(v.val)}
    [] v.kind \in {"array", "set"} -> UNION {KeysIn(v.val[i]) : i \in 1..Len(v.val)}
    [] OTHER -> {}

RECURSIVE RenameKeys(_, _)
\* v with every key k of every plain object in it renamed to fn(k)
RenameKeys(fn, v) ==
  CASE v.kind = "object" ->
         [v EXCEPT !.val = [i \in 1..Len(v.val) |->
            <<ApplyCase(fn, v.val[i][1]), RenameKeys(fn, v.val[i][2])>>]]
    [] v.kind \in {"array", "set"} ->
         [v EXCEPT !.val = [i \in 1..Len(v.val) |-> RenameKeys(fn, v.val[i])]]
    [] OTHER -> v

\* the latest call is on extendDefaultMarshaller([RecaseMarshalUnit(f, g)])
OnRecaseExtension ==
  /\ call.m \in Extended /\ Extension(call.m).base = defaultMarshaller
  /\ Len(NewUnits(call.m)) = 1 /\ NewUnits(call.m)[1].marshal.fn = "Recase"
MarshalCase == NewUnits(call.m)[1].marshal.par[1]
UnmarshalCase == NewUnits(call.m)[1].unmarshal.par[1]

\* f and g undo each other on the keys of v and leave their outputs unchanged
Recasable(f, g, v) ==
  \A k \in KeysIn(v) :
    /\ ApplyCase(g, ApplyCase(f, k)) = k
    /\ ApplyCase(f, ApplyCase(f, k)) = ApplyCase(f, k)
    /\ ApplyCase(g, ApplyCase(g, ApplyCase(f, k))) = ApplyCase(g, ApplyCase(f, k))

C15_ToJsonOneWay ==
  (call.m = defaultMarshaller) =>
    \A j \in DispatchRuns :
      LET r == call.runs[j]
          U == CallUnits
      IN /\ (/\ r.dir = "marshal" /\ HasToJSON(r.value)
             /\ \A i \in 1..Len(U) : ~U[i].generic => Passes(U[i], r)) =>
              /\ Last(r.tried).unit = ToJsonMarshalUnit
              /\ j < Len(call.runs)
              /\ call.runs[j + 1].value = ToJSON(r.value)
              /\ call.runs[j + 1].key = r.key
              /\ call.runs[j + 1].depth = r.depth + 1
              /\ r.ok = call.runs[j + 1].ok
              /\ r.result = call.runs[j + 1].result
              /\ r.result = Run("marshal", defaultMarshaller, ToJSON(r.value), r.key,
                                r.depth + 1).value
         /\ r.dir = "unmarshal" =>
              /\ Passes(ToJsonMarshalUnit, r)
              /\ \A e \in 1..Len(r.tried) :
                   r.tried[e].unit = ToJsonMarshalUnit => r.tried[e].status = "pass"
              /\ r.result.kind # "json"

\* marshal of an instance whose toJSON gives { foo: 1n }, under the key
\* endTime: { foo: '1' } came back, dispatched under that key
C15_Witness ==
  /\ call.m = defaultMarshaller /\ call.dir = "marshal" /\ call.ok
  /\ call.value.kind = "json" /\ call.key = Str(EndTime)
  /\ Len(call.runs) >= 2 /\ call.runs[2].key = Str(EndTime)
  /\ call.result = NewObject(<< <<Foo, Str(<<"1">>)>> >>)

\* unmarshal of what marshal returned for the instance: a plain object
C15_WitnessUnmarshal ==
  /\ call.m = defaultMarshaller /\ call.dir = "unmarshal" /\ call.ok
  /\ call.from # <<>> /\ call.from[1].kind = "json"
  /\ call.result.kind = "object"
  /\ \E e \in 1..Len(call.runs[1].tried) :
       call.runs[1].tried[e].unit = ToJsonMarshalUnit

(***************************************************************************)
(* C16  Termination on acyclic input.  As claimed: for a marshaller of     *)
(* built-in units, RecaseMarshalUnit with any key functions among them,    *)
(* every call on a finite acyclic value is a descent over the value's      *)
(* structure: no run is nested deeper than the structure accounts for      *)
(* (one frame per level of nesting, and at most two more per level where   *)
(* a toJSON or recase unit passes the node itself back), and no call ends  *)
(* with the stack exhausted.                                               *)
(***************************************************************************)
\* the greatest of a set of numbers, 0 when it is empty
Greatest(S) == IF S = {} THEN 0 ELSE CHOOSE e \in S : \A d \in S : d <= e

RECURSIVE Height(_)
\* the levels of nesting in v
Height(v) ==
  CASE v.kind \in {"array", "set", "bytes"} ->
         1 + Greatest({Height(v.val[i]) : i \in 1..Len(v.val)})
    [] v.kind \in {"object", "foo", "json"} ->
         1 + Greatest({Height(v.val[i][2]) : i \in 1..Len(v.val)})
    [] OTHER -> 0

\* the latest call ended when the stack was exhausted
StackExhausted ==
  /\ call.runs # <<>> /\ ~call.ok /\ call.result = RangeError
  /\ Last(call.runs).depth = MaxStack
  /\ Last(Last(call.runs).tried).unit[call.dir].fn \in {"Recase", "ToJsonMarshal",
        "ArrayMarshal", "ArrayUnmarshal", "ObjectMarshal", "ObjectUnmarshal",
        "SetMarshal", "SetUnmarshal"}

C16_TerminatesOnAcyclicInput ==
  call.m # 0 =>
    /\ ~StackExhausted
    /\ \A j \in DispatchRuns : call.runs[j].depth <= 1 + 3 * Height(call.value)


(***************************************************************************)
(* C17  No in-place mutation.  A call on a marshaller createMarshaller     *)
(* built from built-in units leaves the caller's value and the containers  *)
(* in it as they were: the only object of the caller a run gives back is   *)
(* the run's own input, unchanged, and a container unit gives back a newly *)
(* built array, object or set.  The call leaves the unit arrays and the    *)
(* marshallers as they were, so that the same call made again gives the    *)
(* same result.  An object of the caller has ref # 0; an object built      *)
(* during a call has ref 0.                                                *)
(***************************************************************************)
\* unit is a built-in unit
BuiltIn(unit) ==
  \/ unit \in {DateMarshalUnit, BigintMarshalUnit, ArrayMarshalUnit, ObjectMarshalUnit,
               SetMarshalUnit, ToJsonMarshalUnit}
  \/ unit.marshal.fn \in {"Recase", "Ignore"}

\* the latest call was made on a dispatcher of built-in units only
OnBuiltinDispatcher ==
  /\ call.m # 0
  /\ marshallers[call.m].kind = "created"
  /\ \A i \in 1..Len(CallUnits) : BuiltIn(CallUnits[i])

ContainerCallbacks ==
  {"ArrayMarshal", "ArrayUnmarshal", "Recase", "ObjectMarshal", "ObjectUnmarshal",
   "SetMarshal", "SetUnmarshal"}

\* run r returned what a container unit gave
ByContainerUnit(r) ==
  /\ r.ok /\ r.tried # <<>>
  /\ Last(r.tried).status = "morph"
  /\ Last(r.tried).unit[r.dir].fn \in ContainerCallbacks

InputsUntouched ==
  OnBuiltinDispatcher =>
    /\ \A j \in DispatchRuns :
         LET r == call.runs[j] IN
         /\ (r.ok /\ r.result.ref # 0) => r.result = r.value
         /\ ByContainerUnit(r) =>
              r.result.ref = 0 /\ r.result.kind \in {"array", "object", "set"}
    /\ CallRecord(call.m, call.dir, call.value, call.key, call.from) = call

C17_NoInPlaceMutation ==
  /\ []InputsUntouched
  /\ [][call' # NoCall => arrays' = arrays /\ marshallers' = marshallers]_vars

\* a call on defaultMarshaller marshalled an array of the caller that holds
\* containers of the caller, and gave back another array
C17_Witness ==
  /\ OnBuiltinDispatcher /\ call.m = defaultMarshaller /\ call.dir = "marshal" /\ call.ok
  /\ call.value.kind = "array" /\ call.value.ref # 0
  /\ \E i \in 1..Len(call.value.val) :
       call.value.val[i].kind \in {"array", "object", "set"} /\ call.value.val[i].ref # 0
  /\ call.result.ref = 0 /\ call.result.val # call.value.val
  /\ \E j \in DispatchRuns : call.runs[j].depth = 2 /\ ByContainerUnit(call.runs[j])

\* a run gave back an object of the caller: its own input, as it was
C17_WitnessSame ==
  /\ OnBuiltinDispatcher /\ call.ok
  /\ \E j \in DispatchRuns :
       /\ call.runs[j].ok /\ call.runs[j].result.ref # 0
       /\ call.runs[j].result = call.runs[j].value
       /\ call.runs[j].depth > 1


(***************************************************************************)
(* C18  The finalizer runs once, at the top only.  For a marshaller made   *)
(* by addMarshallerFinalizer(base, f): an unmarshal call that returns      *)
(* applies f once (and once the finalizer of each wrapper base is made     *)
(* of), after every dispatcher run of the call, to what base returned for  *)
(* the root; every nested value a unit passes back gets what base's        *)
(* pipeline gives for it, f not applied; a marshal call never applies f.   *)
(***************************************************************************)
\* the calls of a finalizer the latest call made
FinalizerCalls == {j \in 1..Len(call.runs) : call.runs[j].dir = "finalize"}

RECURSIVE Wrappers(_)
\* the finalizers wrapped around the dispatcher a call on m ends in, innermost first
Wrappers(m) ==
  IF marshallers[m].kind = "created" THEN <<>>
  ELSE Append(Wrappers(marshallers[m].base), marshallers[m].finalizer)

C18_FinalizerOnceAtTop ==
  (call.m \in WithFinalizer) =>
    /\ (call.dir = "marshal" \/ ~call.ok) => FinalizerCalls = {}
    /\ (call.dir = "unmarshal" /\ call.ok) =>
         /\ Cardinality(FinalizerCalls) = Len(Wrappers(call.m))
         /\ \A j \in FinalizerCalls :
              /\ call.runs[j].depth = 1
              /\ \A i \in DispatchRuns : i < j
         /\ Last(call.runs).dir = "finalize"
         /\ Last(call.runs).value = BaseResult.value
         /\ Last(call.runs).result = call.result
    /\ \A j \in DispatchRuns :
         LET r == call.runs[j] IN
         (r.depth > 1 /\ r.ok) =>
           r.result = Run(r.dir, Owner(call.m), r.value, r.key, r.depth).value

\* an unmarshal call on a finalized marshaller whose units passed nested
\* values back: the finalizer, which would have changed each of them, was
\* applied once, to the root
C18_Witness ==
  /\ call.m \in WithFinalizer /\ call.dir = "unmarshal" /\ call.ok
  /\ Cardinality(FinalizerCalls) = 1
  /\ \E j \in DispatchRuns :
       /\ call.runs[j].depth > 1
       /\ ApplyFinalizer(marshallers[call.m].finalizer, call.runs[j].result)
            # call.runs[j].result
  /\ call.result = ApplyFinalizer(marshallers[call.m].finalizer, BaseResult.value)
  /\ call.result # BaseResult.value

\* a marshal call on a finalized marshaller whose units passed nested values back
C18_WitnessMarshal ==
  /\ call.m \in WithFinalizer /\ call.dir = "marshal" /\ call.ok
  /\ \E j \in DispatchRuns : call.runs[j].depth > 1
  /\ FinalizerCalls = {}

\* an unmarshal call on a finalized marshaller whose base is a finalized one
C18_WitnessTwice ==
  /\ call.m \in WithFinalizer /\ call.dir = "unmarshal" /\ call.ok
  /\ Cardinality(FinalizerCalls) = 2


(***************************************************************************)
(* C19  The finalizer wrapper keeps the key label.  As claimed: for a      *)
(* marshaller made by addMarshallerFinalizer(base, f), every value x and   *)
(* every key label k, marshal(x, k) returns base.marshal(x, k) and         *)
(* unmarshal(x, k) returns f(base.unmarshal(x, k)): the units of base see  *)
(* the root under the key k, as when base is called directly.              *)
(***************************************************************************)
\* base.marshal(x, k) / base.unmarshal(x, k) for the base of the latest
\* call's marshaller, with the key of the call
BaseResultKeyed ==
  CallMarshaller(marshallers[call.m].base, call.dir, call.value, call.key, 1)

C19_WrapperKeepsKey ==
  (call.m \in WithFinalizer) =>
    /\ call.ok = BaseResultKeyed.ok
    /\ call.ok =>
         /\ call.result =
              IF call.dir = "unmarshal"
                THEN ApplyFinalizer(marshallers[call.m].finalizer, BaseResultKeyed.value)
                ELSE BaseResultKeyed.value
         /\ \A j \in DispatchRuns :
              call.runs[j].depth = 1 => call.runs[j].key = call.key


=============================================================================
